---- MODULE Spec2Model ----
(***************************************************************************)
(* A model of the HexTileBuilder core:                                     *)
(*   - MapGenerator (generateTileMap and the private steps it calls), as   *)
(*     a step-by-step state machine, one action per loop iteration, with   *)
(*     every Math.random() call a nondeterministic draw;                   *)
(*   - CoordinateSystem (calculateIsometricPosition, screenToGrid), as     *)
(*     operators applied to inputs drawn from bounded sets;                *)
(*   - HexTileMap's constructor, handleResize and destroy, and the App     *)
(*     component's effect, script callbacks and unmount, one action each.  *)
(*                                                                         *)
(* Specifications.  Spec is generateTileMap under the exported tables;     *)
(* SpecCoord the coordinate system; SpecSmooth the smoothing loops alone,  *)
(* on maps larger than Spec can afford; SpecSelect                         *)
(* selectTerrainTypeFromValue alone; SpecConfig the construction of a      *)
(* MapGenerator and generateTileMap under tables that may be malformed;    *)
(* SpecSelectFeature selectFeatureTypeWithWeights alone; SpecCoordLifted   *)
(* the coordinate system that takes a tileOffset; SpecHexTileMap the       *)
(* HexTileMap objects and the window's 'resize' listeners; SpecApp the     *)
(* App component from mount to unmount.                                    *)
(*                                                                         *)
(* Numbers.  A Math.random() result is an integer number of hundredths     *)
(* (0 stands for 0.0, 99 for 0.99).  A value handed to                     *)
(* selectTerrainTypeFromValue is an exact fraction [n, d] (n/d), compared  *)
(* by cross-multiplication.  Pixel quantities are integers counting        *)
(* eighths of a pixel, so hexWidth * 3/4 and its half are exact for every  *)
(* whole-pixel hexWidth.  Floating-point rounding is not modelled.         *)
(* Sequences are 1-based: the source's terrain[y][x] is terrain[y+1][x+1]. *)
(***************************************************************************)
EXTENDS Integers, Sequences, FiniteSets, TLC

\* ------------------------------------------------------------------ bounds

\* Largest width or height passed to generateTileMap.
MaxDim == 3
\* Largest number of cells (width * height) of a generated map.
MaxCells == 4
\* Grid cells handed to the coordinate system lie in -MaxCoord..MaxCoord.
MaxCoord == 3
\* Hex tile sizes 1..MaxHexSize pixels are tried beside the program's own.
MaxHexSize == 2
\* The greatest width and height of the maps whose smoothing is checked alone,
\* and the number of their seeds that differ from the others.
MaxSmoothDim == 3
MaxMarked == 2
\* The greatest number of HexTileMap objects constructed, of 'resize' events
\* of the window, and of mounts of the App component.
MaxGames == 2
MaxResizes == 2
MaxMounts == 2

\* The Math.random() results tried, in hundredths.
RandomDraws == {0, 50, 85, 99}

\* The Math.random() results tried for the re-draw of an isolated water
\* cell: one for each of the five terrain kinds.
RedrawDraws == RandomDraws \cup {65}

\* d hundredths < num/den
DrawLess(d, num, den) == d * den < num * 100

\* ----------------------------------------------------------- TileTypes

TerrainOrder == <<"grass", "forest", "mountain", "desert", "water">>

TerrainTileType == {TerrainOrder[i] : i \in 1..Len(TerrainOrder)}

WATER == "water"

GRASS == "grass"

FeatureOrder == <<"fruit", "animals", "minerals", "ruins", "village">>

FeatureTileType == {FeatureOrder[i] : i \in 1..Len(FeatureOrder)}

TERRAIN_WEIGHTS ==
  [grass |-> 35, forest |-> 25, mountain |-> 15, desert |-> 15, water |-> 10]

FEATURE_WEIGHTS ==
  [fruit |-> 25, animals |-> 25, minerals |-> 20, ruins |-> 15, village |-> 15]

VALID_FEATURE_TERRAIN_COMBINATIONS ==
  [fruit    |-> {"grass", "forest"},
   animals  |-> {"grass", "forest", "desert"},
   minerals |-> {"mountain", "desert"},
   ruins    |-> {"grass", "desert", "forest"},
   village  |-> {"grass", "desert"}]

\* What the TileTypes module exports.
TileTypes ==
  [TERRAIN_WEIGHTS |-> TERRAIN_WEIGHTS,
   FEATURE_WEIGHTS |-> FEATURE_WEIGHTS,
   VALID_FEATURE_TERRAIN_COMBINATIONS |-> VALID_FEATURE_TERRAIN_COMBINATIONS]

VARIABLES
  tables,         \* the exported table objects, which MapGenerator reads
  mapGenerator    \* "none" until new MapGenerator() has returned

configVars == <<tables, mapGenerator>>

\* ------------------------------------------------------------- helpers

SetMin(S) == CHOOSE m \in S : \A k \in S : m <= k

\* The condition of a counting loop, for (let i = 0; i < n; i++).
LoopRuns(i, n) == i < n

\* ---------------------------------------------------------- MapGenerator

\* The running total of five equal weights of 20.
TerrainRunningTotalOfEqualWeights(k) == 20 * k

\* runningTotal after the first k entries of Object.entries(TERRAIN_WEIGHTS).
RECURSIVE TerrainRunningTotal(_)
TerrainRunningTotal(k) ==
  IF k = 0 THEN 0
  ELSE TerrainRunningTotal(k - 1) + tables.TERRAIN_WEIGHTS[TerrainOrder[k]]

TerrainTotalWeight == TerrainRunningTotal(Len(TerrainOrder))

\* value > threshold.min && value <= threshold.max: ranges closed above.
InThresholdClosedAbove(value, k) ==
  /\ TerrainRunningTotal(Len(TerrainOrder)) > 0
  /\ value.n * TerrainRunningTotal(Len(TerrainOrder))
       > TerrainRunningTotal(k - 1) * value.d
  /\ value.n * TerrainRunningTotal(Len(TerrainOrder))
       <= TerrainRunningTotal(k) * value.d

\* value >= threshold.min && value < threshold.max, for the k-th threshold.
\* With a totalWeight of 0 min and max are not numbers and both tests fail.
InThreshold(value, k) ==
  /\ TerrainTotalWeight > 0
  /\ value.n * TerrainTotalWeight >= TerrainRunningTotal(k - 1) * value.d
  /\ value.n * TerrainTotalWeight < TerrainRunningTotal(k) * value.d

selectTerrainTypeFromValue(value) ==
  LET hits == {k \in 1..Len(TerrainOrder) : InThreshold(value, k)}
  IN  IF hits # {} THEN TerrainOrder[SetMin(hits)] ELSE GRASS

\* A scan of the four cells that share an edge with the centre only.
NeighboursWithoutDiagonals(cx, cy, w, h) ==
  {c \in {<<cx - 1, cy>>, <<cx + 1, cy>>, <<cx, cy - 1>>, <<cx, cy + 1>>} :
     ~(c[1] < 0 \/ c[2] < 0 \/ c[1] >= w \/ c[2] >= h)}

\* The cells (nx, ny) the 3x3 scans of generateTerrainLayer and
\* refineWaterBodies do not skip: in bounds and not the centre.
Neighbours(cx, cy, w, h) ==
  {c \in {<<cx + dx, cy + dy>> : dx \in -1..1, dy \in -1..1} :
     ~(c[1] < 0 \/ c[2] < 0 \/ c[1] >= w \/ c[2] >= h \/ c = <<cx, cy>>)}

RECURSIVE SumSeeds(_, _)
SumSeeds(seeds, cells) ==
  IF cells = {} THEN 0
  ELSE LET c == CHOOSE e \in cells : TRUE
       IN  seeds[c[2] + 1][c[1] + 1] + SumSeeds(seeds, cells \ {c})

\* total when the 3x3 scan of cell (cx, cy) ends: the cell's own seed and
\* the seeds of the cells the scan does not skip, in hundredths.
smoothingTotal(seeds, cx, cy, w, h) ==
  seeds[cy + 1][cx + 1] + SumSeeds(seeds, Neighbours(cx, cy, w, h))

\* A count that starts at 0: the cell's own seed is added but not counted.
smoothingCountWithoutCentre(cx, cy, w, h) == Cardinality(Neighbours(cx, cy, w, h))

\* count when the scan ends.
smoothingCount(cx, cy, w, h) == 1 + Cardinality(Neighbours(cx, cy, w, h))

\* smoothedValue = total / count, as an exact fraction.
smoothedValue(seeds, cx, cy, w, h) ==
  [n |-> smoothingTotal(seeds, cx, cy, w, h),
   d |-> smoothingCount(cx, cy, w, h) * 100]

\* The value Math.random() returned, as a fraction.
RandomValue(d) == [n |-> d, d |-> 100]

waterNeighbors(map, cx, cy) ==
  Cardinality({c \in Neighbours(cx, cy, Len(map[1]), Len(map)) :
                 map[c[2] + 1][c[1] + 1] = WATER})

SetCell(map, cx, cy, v) == [map EXCEPT ![cy + 1][cx + 1] = v]

\* A loop body that re-draws every water cell, isolated or not.
RefinedTempRedrawingAnyWater(map, temp, cx, cy, d1, d2) ==
  LET wn == waterNeighbors(map, cx, cy)
      t1 == IF wn >= 2 /\ DrawLess(d1, 7, 10)
            THEN SetCell(temp, cx, cy, WATER) ELSE temp
  IN  IF map[cy + 1][cx + 1] = WATER
      THEN SetCell(t1, cx, cy, selectTerrainTypeFromValue(RandomValue(d2)))
      ELSE t1

\* A loop body whose re-draw of an isolated water cell never gives water
\* again: a re-drawn water becomes grass.
RefinedTempRedrawingToLand(map, temp, cx, cy, d1, d2) ==
  LET wn == waterNeighbors(map, cx, cy)
      t1 == IF wn >= 2 /\ DrawLess(d1, 7, 10)
            THEN SetCell(temp, cx, cy, WATER) ELSE temp
      kind == selectTerrainTypeFromValue(RandomValue(d2))
  IN  IF map[cy + 1][cx + 1] = WATER /\ wn = 0
      THEN SetCell(t1, cx, cy, IF kind = WATER THEN GRASS ELSE kind)
      ELSE t1

\* A loop body that re-draws every cell without a water neighbour, water
\* or not.
RefinedTempRedrawingAnyIsolated(map, temp, cx, cy, d1, d2) ==
  LET wn == waterNeighbors(map, cx, cy)
      t1 == IF wn >= 2 /\ DrawLess(d1, 7, 10)
            THEN SetCell(temp, cx, cy, WATER) ELSE temp
  IN  IF wn = 0
      THEN SetCell(t1, cx, cy, selectTerrainTypeFromValue(RandomValue(d2)))
      ELSE t1

\* The body of refineWaterBodies' loop for one cell: the new tempMap.
\* d1 is the draw of "Math.random() < 0.7" (made only when the cell has two
\* or more water neighbours), d2 the draw handed to selectTerrainTypeFromValue.
RefinedTemp(map, temp, cx, cy, d1, d2) ==
  LET wn == waterNeighbors(map, cx, cy)
      t1 == IF wn >= 2 /\ DrawLess(d1, 7, 10)
            THEN SetCell(temp, cx, cy, WATER) ELSE temp
  IN  IF map[cy + 1][cx + 1] = WATER /\ wn = 0
      THEN SetCell(t1, cx, cy, selectTerrainTypeFromValue(RandomValue(d2)))
      ELSE t1

\* The loops under "Apply the changes": terrainMap[y][x] = tempMap[y][x] for
\* y < terrainMap.length, x < terrainMap[0].length, written in place.
AppliedChanges(map, temp) ==
  [yy \in DOMAIN map |->
     [xx \in DOMAIN map[yy] |->
        IF xx <= Len(map[1]) THEN temp[yy][xx] ELSE map[yy][xx]]]

\* A getValidFeatureTypesForTerrain that forgets the includes() test.
getValidFeatureTypesIgnoringTerrain(terrainType) == FeatureOrder

getValidFeatureTypesForTerrain(terrainType) ==
  SelectSeq(FeatureOrder,
            LAMBDA f :
              /\ f \in DOMAIN tables.VALID_FEATURE_TERRAIN_COMBINATIONS
              /\ terrainType \in tables.VALID_FEATURE_TERRAIN_COMBINATIONS[f])

RECURSIVE FeatureRunningTotal(_, _)
FeatureRunningTotal(validTypes, k) ==
  IF k = 0 THEN 0
  ELSE FeatureRunningTotal(validTypes, k - 1)
         + tables.FEATURE_WEIGHTS[validTypes[k]]

\* A selection that tests randomValue < runningTotal.
selectFeatureTypeStrictlyBelow(validTypes, d) ==
  LET totalWeight == FeatureRunningTotal(validTypes, Len(validTypes))
      hits == {k \in 1..Len(validTypes) :
                 d * totalWeight < FeatureRunningTotal(validTypes, k) * 100}
  IN  IF hits # {} THEN validTypes[SetMin(hits)] ELSE validTypes[1]

\* randomValue = (d/100) * totalWeight; the first type with
\* randomValue <= runningTotal, else validTypes[0].
selectFeatureTypeWithWeights(validTypes, d) ==
  LET totalWeight == FeatureRunningTotal(validTypes, Len(validTypes))
      hits == {k \in 1..Len(validTypes) :
                 d * totalWeight <= FeatureRunningTotal(validTypes, k) * 100}
  IN  IF hits # {} THEN validTypes[SetMin(hits)] ELSE validTypes[1]

\* A FeatureTile written { x: y, y, type }.
FeatureTileRowForColumn(fx, fy, type) == [x |-> fy, y |-> fy, type |-> type]

\* A FeatureTile with its coordinates exchanged.
FeatureTileSwapped(fx, fy, type) == [x |-> fy, y |-> fx, type |-> type]

\* A FeatureTile that counts columns and rows from 1.
FeatureTileOneBased(fx, fy, type) == [x |-> fx + 1, y |-> fy + 1, type |-> type]

\* The object pushed onto features.
FeatureTile(fx, fy, type) == [x |-> fx, y |-> fy, type |-> type]

\* ------------------------------------------------------ CoordinateSystem

\* n whole pixels, in eighths of a pixel.
Px(n) == 8 * n

\* HexTileMap's hexWidth and hexHeight, in pixels.
DefaultHexWidth == 128

DefaultHexHeight == 112

\* A remainder that is never negative, as in languages whose % floors.
FlooredRemainder(a, b) == a % b

\* JavaScript's a % b for b > 0: the remainder has the sign of a.
JsRemainder(a, b) == IF a >= 0 THEN a % b ELSE -((-a) % b)

\* Math.round(n / d) for d > 0: the nearest integer, a half going up.
MathRound(n, d) == (2 * n + d) \div (2 * d)

\* The value itself, as when Math.max(0, v) is left out.
Unclamped(v) == v

\* Math.max(0, v)
MathMax0(v) == IF v > 0 THEN v ELSE 0

\* A constructor with the vertical spacing of the other variant,
\* hexHeight * 0.75.
CoordinateSystemThreeQuarterRows(hexWidth, hexHeight) ==
  [hexWidth        |-> Px(hexWidth),
   hexHeight       |-> Px(hexHeight),
   hexSide         |-> Px(hexHeight) \div 2,
   hexHorizSpacing |-> (Px(hexWidth) * 3) \div 4,
   hexVertSpacing  |-> (Px(hexHeight) * 3) \div 4]

\* new CoordinateSystem(hexWidth, hexHeight, tileOffset), for whole-pixel
\* sizes; tileOffset is not read.  The fields are in eighths of a pixel.
CoordinateSystem(hexWidth, hexHeight) ==
  [hexWidth        |-> Px(hexWidth),
   hexHeight       |-> Px(hexHeight),
   hexSide         |-> Px(hexHeight) \div 2,
   hexHorizSpacing |-> (Px(hexWidth) * 3) \div 4,
   hexVertSpacing  |-> Px(hexHeight)]

\* A calculateIsometricPosition that shifts odd columns ("odd-q", as its
\* comment says) instead of odd rows.
calculateIsometricPositionOddQ(cs, q, r) ==
  LET posX == q * cs.hexHorizSpacing
      posY == r * cs.hexVertSpacing
  IN  [posX |-> IF JsRemainder(q, 2) = 1
                THEN posX + cs.hexHorizSpacing \div 2 ELSE posX,
       posY |-> posY]

\* A calculateIsometricPosition with the other variant's 2 pixel lift.
calculateIsometricPositionLifted(cs, q, r) ==
  LET posX == q * cs.hexHorizSpacing
      posY == r * cs.hexVertSpacing - Px(2)
  IN  [posX |-> IF JsRemainder(r, 2) = 1
                THEN posX + cs.hexHorizSpacing \div 2 ELSE posX,
       posY |-> posY]

calculateIsometricPosition(cs, q, r) ==
  LET posX == q * cs.hexHorizSpacing
      posY == r * cs.hexVertSpacing
  IN  [posX |-> IF JsRemainder(r, 2) = 1
                THEN posX + cs.hexHorizSpacing \div 2 ELSE posX,
       posY |-> posY]

\* A screenToGrid that forgets the shift of odd rows.
screenToGridUnshifted(cs, screenX, screenY, originX, originY) ==
  LET relativeX == screenX - originX
      relativeY == screenY - originY
      approxRow == MathRound(relativeY, cs.hexVertSpacing)
      approxCol == MathRound(relativeX, cs.hexHorizSpacing)
  IN  [gridX |-> MathMax0(approxCol), gridY |-> MathMax0(approxRow)]

\* A screenToGrid that clamps the column only.
screenToGridRowUnclamped(cs, screenX, screenY, originX, originY) ==
  LET relativeX == screenX - originX
      relativeY == screenY - originY
      approxRow == MathRound(relativeY, cs.hexVertSpacing)
      adjustedX == IF JsRemainder(approxRow, 2) = 1
                   THEN relativeX - cs.hexHorizSpacing \div 2 ELSE relativeX
      approxCol == MathRound(adjustedX, cs.hexHorizSpacing)
  IN  [gridX |-> MathMax0(approxCol), gridY |-> approxRow]

screenToGrid(cs, screenX, screenY, originX, originY) ==
  LET relativeX == screenX - originX
      relativeY == screenY - originY
      approxRow == MathRound(relativeY, cs.hexVertSpacing)
      adjustedX == IF JsRemainder(approxRow, 2) = 1
                   THEN relativeX - cs.hexHorizSpacing \div 2 ELSE relativeX
      approxCol == MathRound(adjustedX, cs.hexHorizSpacing)
  IN  [gridX |-> MathMax0(approxCol), gridY |-> MathMax0(approxRow)]

\* ------------------------------ CoordinateSystem, the variant with -2 pixels

\* new CoordinateSystem(hexWidth, hexHeight, tileOffset) of the variant that
\* lifts every tile by 2 pixels, for whole-pixel sizes and a tileOffset of
\* offsetNum/offsetDen.  hexWidth and hexHeight are in eighths of a pixel.
CoordinateSystemLifted(hexWidth, hexHeight, offsetNum, offsetDen) ==
  [hexWidth   |-> Px(hexWidth),
   hexHeight  |-> Px(hexHeight),
   tileOffset |-> <<offsetNum, offsetDen>>]

\* this.hexWidth * this.tileOffset
OffsetX(cs) == (cs.hexWidth * cs.tileOffset[1]) \div cs.tileOffset[2]

\* this.hexHeight * 0.75
ThreeQuarterHeight(cs) == (cs.hexHeight * 3) \div 4

\* The variant's calculateIsometricPosition(x, y).
calculateLiftedPosition(cs, gx, gy) ==
  LET isOddRow == JsRemainder(gy, 2) = 1
      posX == gx * OffsetX(cs)
      posY == gy * ThreeQuarterHeight(cs) - Px(2)
  IN  [posX |-> IF isOddRow THEN posX + OffsetX(cs) \div 2 ELSE posX,
       posY |-> posY]

\* The variant's screenToGrid without its adjustedRelativeY: the row is
\* taken from relativeY.
liftedScreenToGridUnadjusted(cs, screenX, screenY, originX, originY) ==
  LET relativeX == screenX - originX
      relativeY == screenY - originY
      approxRow == MathRound(relativeY, ThreeQuarterHeight(cs))
      isOddRow == JsRemainder(approxRow, 2) = 1
      approxCol == IF isOddRow
                   THEN MathRound(relativeX - OffsetX(cs) \div 2, OffsetX(cs))
                   ELSE MathRound(relativeX, OffsetX(cs))
  IN  [gridX |-> MathMax0(approxCol), gridY |-> MathMax0(approxRow)]

\* The variant's screenToGrid.
liftedScreenToGrid(cs, screenX, screenY, originX, originY) ==
  LET relativeX == screenX - originX
      relativeY == screenY - originY
      adjustedRelativeY == relativeY + Px(2)
      approxRow == MathRound(adjustedRelativeY, ThreeQuarterHeight(cs))
      isOddRow == JsRemainder(approxRow, 2) = 1
      approxCol == IF isOddRow
                   THEN MathRound(relativeX - OffsetX(cs) \div 2, OffsetX(cs))
                   ELSE MathRound(relativeX, OffsetX(cs))
  IN  [gridX |-> MathMax0(approxCol), gridY |-> MathMax0(approxRow)]

\* ------------------------------------------------------------------ state

VARIABLES
  pc,             \* where generateTileMap is
  width, height,  \* its arguments
  x, y,           \* the loop counters of the loop that is running
  row,            \* the row being built (row, terrainRow)
  total, count,   \* the smoothing scan's total (in hundredths) and count
  seedMap,        \* generateTerrainLayer's seedMap
  terrainMap,     \* generateTerrainLayer's terrainMap, then generateFeatures' argument
  tempMap,        \* refineWaterBodies' tempMap
  features,       \* generateFeatures' features
  occupiedTiles,  \* generateFeatures' occupiedTiles, as (x, y) pairs
  result          \* the TileMap returned

genVars == <<pc, width, height, x, y, row, total, count, seedMap,
             terrainMap, tempMap, features, occupiedTiles, result>>

VARIABLES
  coordSystem,    \* the CoordinateSystem object's fields
  cell,           \* the grid cell (q, r) under test
  positions,      \* the calculateIsometricPosition calls made, with their results
  grid            \* the last screenToGrid call, with its result

coordVars == <<coordSystem, cell, positions, grid>>

VARIABLES
  selection,        \* the last selectTerrainTypeFromValue call made on its own
  featureSelection  \* the last selectFeatureTypeWithWeights call made on its own

selectVars == <<selection, featureSelection>>

VARIABLES
  windowPhaser,     \* window.Phaser is defined
  apps,             \* the App components mounted so far, in the order mounted
  games,            \* the HexTileMap objects constructed so far
  resizeListeners,  \* the functions registered for the window's 'resize' event
  binds,            \* the number of functions Function.prototype.bind has made
  resizes           \* the number of 'resize' events dispatched

appVars == <<windowPhaser, apps, games, resizeListeners, binds, resizes>>

vars == <<genVars, coordVars, configVars, selectVars, appVars>>

\* What generateTileMap, the coordinate system, the construction of a
\* MapGenerator and the calls made on their own leave alone.
notGenVars == <<coordVars, configVars, selectVars, appVars>>

notCoordVars == <<genVars, configVars, selectVars, appVars>>

notConfigVars == <<genVars, coordVars, selectVars, appVars>>

notSelectVars == <<genVars, coordVars, configVars, appVars>>

notAppVars == <<genVars, coordVars, configVars, selectVars>>

\* No App is mounted and no HexTileMap constructed.
NoLifecycle ==
  /\ windowPhaser = TRUE
  /\ apps = <<>>
  /\ games = <<>>
  /\ resizeListeners = {}
  /\ binds = 0
  /\ resizes = 0

NoFeatureSelection == [called |-> FALSE, validTypes |-> <<>>, d |-> 0, type |-> ""]

NoSelection == [called |-> FALSE, value |-> [n |-> 0, d |-> 1], type |-> GRASS]

NoResult == [terrain |-> <<>>, features |-> <<>>]

Dims == {d \in ((-1)..MaxDim) \X ((-1)..MaxDim) : d[1] * d[2] <= MaxCells}

\* The tile sizes tried: small ones and HexTileMap's own.
HexWidths == (1..MaxHexSize) \cup {DefaultHexWidth}

HexHeights == (1..MaxHexSize) \cup {DefaultHexHeight}

\* The grid cells tried.
Cells == ((-MaxCoord)..MaxCoord) \X ((-MaxCoord)..MaxCoord)

\* The cells whose position is asked for, given the cell under test: the
\* cell itself, its right-hand neighbour and the cell below it.
Probes(c) == {c, <<c[1] + 1, c[2]>>, <<c[1], c[2] + 1>>}

\* The origins handed to screenToGrid, and the displacements of the screen
\* point from a tile's position (none, the origin's, a fraction of a pixel).
Origins == {<<0, 0>>, <<Px(5), Px(-3)>>}

Displacements == {<<0, 0>>, <<Px(5), Px(-3)>>, <<3, -3>>}

NoGrid == [called |-> FALSE, screenX |-> 0, screenY |-> 0,
           originX |-> 0, originY |-> 0, gridX |-> 0, gridY |-> 0]

InitGen ==
  /\ pc = "idle"
  /\ width = 0 /\ height = 0
  /\ x = 0 /\ y = 0
  /\ row = <<>>
  /\ total = 0 /\ count = 0
  /\ seedMap = <<>>
  /\ terrainMap = <<>>
  /\ tempMap = <<>>
  /\ features = <<>>
  /\ occupiedTiles = {}
  /\ result = NoResult

\* generateTileMap(w, h) is called; generateTerrainLayer starts.
GenerateTileMap(w, h) ==
  /\ mapGenerator = "constructed"
  /\ pc = "idle"
  /\ pc' = "seed"
  /\ width' = w /\ height' = h
  /\ x' = 0 /\ y' = 0 /\ row' = <<>>
  /\ seedMap' = <<>> /\ terrainMap' = <<>>
  /\ UNCHANGED <<tempMap, features, occupiedTiles, result>>
  /\ UNCHANGED <<total, count>>
  /\ UNCHANGED notGenVars

\* row.push(Math.random())
SeedCell ==
  /\ pc = "seed" /\ LoopRuns(y, height) /\ LoopRuns(x, width)
  /\ \E d \in RandomDraws : row' = Append(row, d)
  /\ x' = x + 1
  /\ UNCHANGED <<pc, width, height, y, seedMap, terrainMap, tempMap,
                 features, occupiedTiles, result>>
  /\ UNCHANGED <<total, count>>
  /\ UNCHANGED notGenVars

\* seedMap.push(row)
SeedRowDone ==
  /\ pc = "seed" /\ LoopRuns(y, height) /\ ~LoopRuns(x, width)
  /\ seedMap' = Append(seedMap, row)
  /\ row' = <<>> /\ x' = 0 /\ y' = y + 1
  /\ UNCHANGED <<pc, width, height, terrainMap, tempMap,
                 features, occupiedTiles, result>>
  /\ UNCHANGED <<total, count>>
  /\ UNCHANGED notGenVars

SeedDone ==
  /\ pc = "seed" /\ ~LoopRuns(y, height)
  /\ pc' = "smooth"
  /\ x' = 0 /\ y' = 0 /\ row' = <<>>
  /\ UNCHANGED <<width, height, seedMap, terrainMap, tempMap,
                 features, occupiedTiles, result>>
  /\ UNCHANGED <<total, count>>
  /\ UNCHANGED notGenVars

\* terrainRow.push(this.selectTerrainTypeFromValue(smoothedValue))
SmoothCell ==
  /\ pc = "smooth" /\ LoopRuns(y, height) /\ LoopRuns(x, width)
  /\ row' = Append(row, selectTerrainTypeFromValue(
                          smoothedValue(seedMap, x, y, width, height)))
  /\ total' = smoothingTotal(seedMap, x, y, width, height)
  /\ count' = smoothingCount(x, y, width, height)
  /\ x' = x + 1
  /\ UNCHANGED <<pc, width, height, y, seedMap, terrainMap, tempMap,
                 features, occupiedTiles, result>>
  /\ UNCHANGED notGenVars

\* A smoothing loop whose terrainRow is declared once, outside the y loop,
\* and is never emptied: each pushed row also holds the rows before it.
SmoothRowDoneKeepingRow ==
  /\ pc = "smooth" /\ LoopRuns(y, height) /\ ~LoopRuns(x, width)
  /\ terrainMap' = Append(terrainMap, row)
  /\ row' = row /\ x' = 0 /\ y' = y + 1
  /\ UNCHANGED <<pc, width, height, seedMap, tempMap,
                 features, occupiedTiles, result>>
  /\ UNCHANGED <<total, count>>
  /\ UNCHANGED notGenVars

\* terrainMap.push(terrainRow)
SmoothRowDone ==
  /\ pc = "smooth" /\ LoopRuns(y, height) /\ ~LoopRuns(x, width)
  /\ terrainMap' = Append(terrainMap, row)
  /\ row' = <<>> /\ x' = 0 /\ y' = y + 1
  /\ UNCHANGED <<pc, width, height, seedMap, tempMap,
                 features, occupiedTiles, result>>
  /\ UNCHANGED <<total, count>>
  /\ UNCHANGED notGenVars

\* this.refineWaterBodies(terrainMap) is entered: terrainMap[0].length throws
\* a TypeError when terrainMap is empty; otherwise tempMap is the deep copy.
RefineEnter ==
  /\ pc = "smooth" /\ ~LoopRuns(y, height)
  /\ IF Len(terrainMap) = 0
     THEN pc' = "threw" /\ tempMap' = tempMap
     ELSE pc' = "refine" /\ tempMap' = terrainMap
  /\ x' = 0 /\ y' = 0 /\ row' = <<>>
  /\ total' = 0 /\ count' = 0
  /\ UNCHANGED <<width, height, seedMap, terrainMap,
                 features, occupiedTiles, result>>
  /\ UNCHANGED notGenVars

\* A refinement without tempMap: each decision is written into terrainMap
\* at once, and the cells decided later read it.
RefineCellInPlace ==
  /\ pc = "refine"
  /\ LoopRuns(y, Len(terrainMap)) /\ LoopRuns(x, Len(terrainMap[1]))
  /\ \E d1 \in RandomDraws, d2 \in RedrawDraws :
       terrainMap' = RefinedTemp(terrainMap, terrainMap, x, y, d1, d2)
  /\ tempMap' = terrainMap'
  /\ x' = x + 1
  /\ UNCHANGED <<pc, width, height, y, row, seedMap,
                 features, occupiedTiles, result>>
  /\ UNCHANGED <<total, count>>
  /\ UNCHANGED notGenVars

RefineCell ==
  /\ pc = "refine"
  /\ LoopRuns(y, Len(terrainMap)) /\ LoopRuns(x, Len(terrainMap[1]))
  /\ \E d1 \in RandomDraws, d2 \in RedrawDraws :
       tempMap' = RefinedTemp(terrainMap, tempMap, x, y, d1, d2)
  /\ x' = x + 1
  /\ UNCHANGED <<pc, width, height, y, row, seedMap, terrainMap,
                 features, occupiedTiles, result>>
  /\ UNCHANGED <<total, count>>
  /\ UNCHANGED notGenVars

RefineRowDone ==
  /\ pc = "refine"
  /\ LoopRuns(y, Len(terrainMap)) /\ ~LoopRuns(x, Len(terrainMap[1]))
  /\ x' = 0 /\ y' = y + 1
  /\ UNCHANGED <<pc, width, height, row, seedMap, terrainMap, tempMap,
                 features, occupiedTiles, result>>
  /\ UNCHANGED <<total, count>>
  /\ UNCHANGED notGenVars

\* "Apply the changes", the return of refineWaterBodies and of
\* generateTerrainLayer (their locals go away), and the entry of
\* generateFeatures(terrain).
RefineApply ==
  /\ pc = "refine" /\ ~LoopRuns(y, Len(terrainMap))
  /\ terrainMap' = AppliedChanges(terrainMap, tempMap)
  /\ pc' = "features"
  /\ seedMap' = <<>> /\ tempMap' = <<>>
  /\ features' = <<>> /\ occupiedTiles' = {}
  /\ x' = 0 /\ y' = 0
  /\ UNCHANGED <<width, height, row, result>>
  /\ UNCHANGED <<total, count>>
  /\ UNCHANGED notGenVars

\* An iteration that puts the new feature in front of the list
\* (features.unshift) instead of at its end.
FeatureCellUnshifting ==
  /\ pc = "features"
  /\ LoopRuns(y, Len(terrainMap)) /\ LoopRuns(x, Len(terrainMap[1]))
  /\ IF <<x, y>> \in occupiedTiles
     THEN UNCHANGED <<features, occupiedTiles>>
     ELSE \E d1 \in RandomDraws, d2 \in RandomDraws :
            LET validFeatureTypes ==
                  getValidFeatureTypesForTerrain(terrainMap[y + 1][x + 1])
            IN  IF DrawLess(d1, 2, 10) /\ Len(validFeatureTypes) > 0
                THEN /\ features' =
                          <<FeatureTile(x, y,
                              selectFeatureTypeWithWeights(validFeatureTypes, d2))>>
                            \o features
                     /\ occupiedTiles' = occupiedTiles \cup {<<x, y>>}
                ELSE UNCHANGED <<features, occupiedTiles>>
  /\ x' = x + 1
  /\ UNCHANGED <<pc, width, height, y, row, seedMap, terrainMap, tempMap, result>>
  /\ UNCHANGED <<total, count>>
  /\ UNCHANGED notGenVars

\* An iteration that also clears the ground under a new feature: the cell
\* of terrainMap becomes grass.
FeatureCellClearingTerrain ==
  /\ pc = "features"
  /\ LoopRuns(y, Len(terrainMap)) /\ LoopRuns(x, Len(terrainMap[1]))
  /\ IF <<x, y>> \in occupiedTiles
     THEN UNCHANGED <<features, occupiedTiles, terrainMap>>
     ELSE \E d1 \in RandomDraws, d2 \in RandomDraws :
            LET validFeatureTypes ==
                  getValidFeatureTypesForTerrain(terrainMap[y + 1][x + 1])
            IN  IF DrawLess(d1, 2, 10) /\ Len(validFeatureTypes) > 0
                THEN /\ features' = Append(features,
                          FeatureTile(x, y,
                            selectFeatureTypeWithWeights(validFeatureTypes, d2)))
                     /\ occupiedTiles' = occupiedTiles \cup {<<x, y>>}
                     /\ terrainMap' = SetCell(terrainMap, x, y, GRASS)
                ELSE UNCHANGED <<features, occupiedTiles, terrainMap>>
  /\ x' = x + 1
  /\ UNCHANGED <<pc, width, height, y, row, seedMap, tempMap, result>>
  /\ UNCHANGED <<total, count>>
  /\ UNCHANGED notGenVars

\* One iteration of generateFeatures' inner loop.  d1 is the draw compared
\* with featureProbability, d2 the draw of selectFeatureTypeWithWeights.
FeatureCell ==
  /\ pc = "features"
  /\ LoopRuns(y, Len(terrainMap)) /\ LoopRuns(x, Len(terrainMap[1]))
  /\ IF <<x, y>> \in occupiedTiles
     THEN UNCHANGED <<features, occupiedTiles>>
     ELSE \E d1 \in RandomDraws, d2 \in RandomDraws :
            LET validFeatureTypes ==
                  getValidFeatureTypesForTerrain(terrainMap[y + 1][x + 1])
            IN  IF DrawLess(d1, 2, 10) /\ Len(validFeatureTypes) > 0
                THEN /\ features' = Append(features,
                          FeatureTile(x, y,
                            selectFeatureTypeWithWeights(validFeatureTypes, d2)))
                     /\ occupiedTiles' = occupiedTiles \cup {<<x, y>>}
                ELSE UNCHANGED <<features, occupiedTiles>>
  /\ x' = x + 1
  /\ UNCHANGED <<pc, width, height, y, row, seedMap, terrainMap, tempMap, result>>
  /\ UNCHANGED <<total, count>>
  /\ UNCHANGED notGenVars

FeatureRowDone ==
  /\ pc = "features"
  /\ LoopRuns(y, Len(terrainMap)) /\ ~LoopRuns(x, Len(terrainMap[1]))
  /\ x' = 0 /\ y' = y + 1
  /\ UNCHANGED <<pc, width, height, row, seedMap, terrainMap, tempMap,
                 features, occupiedTiles, result>>
  /\ UNCHANGED <<total, count>>
  /\ UNCHANGED notGenVars

\* return { terrain, features }
ReturnTileMap ==
  /\ pc = "features" /\ ~LoopRuns(y, Len(terrainMap))
  /\ pc' = "done"
  /\ result' = [terrain |-> terrainMap, features |-> features]
  /\ UNCHANGED <<width, height, x, y, row, seedMap, terrainMap, tempMap,
                 features, occupiedTiles>>
  /\ UNCHANGED <<total, count>>
  /\ UNCHANGED notGenVars

NextGen ==
  \/ \E d \in Dims : GenerateTileMap(d[1], d[2])
  \/ SeedCell \/ SeedRowDone \/ SeedDone
  \/ SmoothCell \/ SmoothRowDone
  \/ RefineEnter \/ RefineCell \/ RefineRowDone \/ RefineApply
  \/ FeatureCell \/ FeatureRowDone \/ ReturnTileMap

\* HexTileMap's constructor: new CoordinateSystem(128, 112, 0.75) and
\* new MapGenerator().
Init ==
  /\ InitGen
  /\ tables = TileTypes
  /\ mapGenerator = "constructed"
  /\ selection = NoSelection
  /\ featureSelection = NoFeatureSelection
  /\ NoLifecycle
  /\ coordSystem = CoordinateSystem(DefaultHexWidth, DefaultHexHeight)
  /\ cell = <<0, 0>>
  /\ positions = {}
  /\ grid = NoGrid

Spec == Init /\ [][NextGen]_vars

\* A coordinate system of any tried size, and a cell to test it on.
InitCoord ==
  /\ InitGen
  /\ tables = TileTypes
  /\ mapGenerator = "constructed"
  /\ selection = NoSelection
  /\ featureSelection = NoFeatureSelection
  /\ NoLifecycle
  /\ coordSystem \in {CoordinateSystem(w, h) : w \in HexWidths, h \in HexHeights}
  /\ cell \in Cells
  /\ positions = {}
  /\ grid = NoGrid

\* calculateIsometricPosition(q, r) is called and returns.
CalculateIsometricPosition(q, r) ==
  /\ LET pos == calculateIsometricPosition(coordSystem, q, r)
     IN  positions' = positions \cup
           {[q |-> q, r |-> r, posX |-> pos.posX, posY |-> pos.posY]}
  /\ UNCHANGED <<coordSystem, cell, grid>>
  /\ UNCHANGED notCoordVars

\* screenToGrid(screenX, screenY, originX, originY) is called and returns.
ScreenToGrid(screenX, screenY, originX, originY) ==
  /\ LET g == screenToGrid(coordSystem, screenX, screenY, originX, originY)
     IN  grid' = [called |-> TRUE, screenX |-> screenX, screenY |-> screenY,
                  originX |-> originX, originY |-> originY,
                  gridX |-> g.gridX, gridY |-> g.gridY]
  /\ UNCHANGED <<coordSystem, cell, positions>>
  /\ UNCHANGED notCoordVars

NextCoord ==
  \/ \E c \in Probes(cell) : CalculateIsometricPosition(c[1], c[2])
  \/ \E p \in positions, d \in Displacements, o \in Origins :
       ScreenToGrid(p.posX + d[1], p.posY + d[2], o[1], o[2])

SpecCoord == InitCoord /\ [][NextCoord]_vars

\* The tables a MapGenerator may find when it is constructed: the exported
\* ones, and those with one table changed (the exported objects are not
\* frozen): VALID_FEATURE_TERRAIN_COMBINATIONS without its village entry or
\* with no terrain for fruit, TERRAIN_WEIGHTS or FEATURE_WEIGHTS all 0.
ConfigTables ==
  {TileTypes,
   [TileTypes EXCEPT !.VALID_FEATURE_TERRAIN_COMBINATIONS =
      [f \in FeatureTileType \ {"village"} |->
         VALID_FEATURE_TERRAIN_COMBINATIONS[f]]],
   [TileTypes EXCEPT !.VALID_FEATURE_TERRAIN_COMBINATIONS =
      [VALID_FEATURE_TERRAIN_COMBINATIONS EXCEPT !["fruit"] = {}]],
   [TileTypes EXCEPT !.TERRAIN_WEIGHTS = [t \in TerrainTileType |-> 0]],
   [TileTypes EXCEPT !.FEATURE_WEIGHTS = [f \in FeatureTileType |-> 0]]}

\* The dimensions of the maps generated under them.
ConfigDims == {<<1, 1>>, <<2, 1>>, <<1, 2>>}

\* No MapGenerator exists yet; the tables are any of ConfigTables.
InitConfig ==
  /\ InitGen
  /\ tables \in ConfigTables
  /\ mapGenerator = "none"
  /\ selection = NoSelection
  /\ featureSelection = NoFeatureSelection
  /\ NoLifecycle
  /\ coordSystem = CoordinateSystem(DefaultHexWidth, DefaultHexHeight)
  /\ cell = <<0, 0>>
  /\ positions = {}
  /\ grid = NoGrid

\* new MapGenerator(): the class declares no constructor and no field, so
\* nothing is read and nothing can be thrown.
NewMapGenerator ==
  /\ mapGenerator = "none"
  /\ mapGenerator' = "constructed"
  /\ UNCHANGED <<tables, notConfigVars>>

NextConfig ==
  \/ NewMapGenerator
  \/ \E d \in ConfigDims : GenerateTileMap(d[1], d[2])
  \/ SeedCell \/ SeedRowDone \/ SeedDone
  \/ SmoothCell \/ SmoothRowDone
  \/ RefineEnter \/ RefineCell \/ RefineRowDone \/ RefineApply
  \/ FeatureCell \/ FeatureRowDone \/ ReturnTileMap

\* The construction of a MapGenerator and its generateTileMap, under tables
\* that may be malformed.
SpecConfig == InitConfig /\ [][NextConfig]_vars

\* The values handed to selectTerrainTypeFromValue on its own: every
\* hundredth from 0 to 1 and the thousandths next to it.
TestValues ==
  {[n |-> k, d |-> 1000] :
     k \in {10 * j + e : j \in 0..100, e \in {-1, 0, 1}} \cap (0..1000)}

\* selectTerrainTypeFromValue(value) is called and returns.
SelectTerrainTypeFromValue(value) ==
  /\ selection' = [called |-> TRUE, value |-> value,
                   type |-> selectTerrainTypeFromValue(value)]
  /\ UNCHANGED <<featureSelection, notSelectVars>>

NextSelect == \E value \in TestValues : SelectTerrainTypeFromValue(value)

\* selectTerrainTypeFromValue alone, under the exported tables.
SpecSelect == Init /\ [][NextSelect]_vars

\* The lists handed to selectFeatureTypeWithWeights on its own: the
\* non-empty lists of feature kinds in the order of the tables' keys, those
\* getValidFeatureTypesForTerrain returns among them.
ValidTypeLists ==
  {SelectSeq(FeatureOrder, LAMBDA f : f \in S) :
     S \in (SUBSET FeatureTileType) \ {{}}}

\* The Math.random() results tried in it, in hundredths: every twentieth,
\* and the least and the greatest hundredth beside 0.
FeatureDraws == {d \in 0..99 : d % 5 = 0 \/ d \in {1, 99}}

\* selectFeatureTypeWithWeights(validTypes) is called, draws d and returns.
SelectFeatureTypeWithWeights(validTypes, d) ==
  /\ featureSelection' =
       [called |-> TRUE, validTypes |-> validTypes, d |-> d,
        type |-> selectFeatureTypeWithWeights(validTypes, d)]
  /\ UNCHANGED <<selection, notSelectVars>>

NextSelectFeature ==
  \E validTypes \in ValidTypeLists, d \in FeatureDraws :
    SelectFeatureTypeWithWeights(validTypes, d)

\* selectFeatureTypeWithWeights alone, under the exported tables.
SpecSelectFeature == Init /\ [][NextSelectFeature]_vars

\* The tileOffset values tried: HexTileMap's 0.75, and a half.
TileOffsets == {<<3, 4>>, <<1, 2>>}

\* A coordinate system of the variant, of any tried size and offset, and a
\* cell to test it on.
InitCoordLifted ==
  /\ InitGen
  /\ tables = TileTypes
  /\ mapGenerator = "constructed"
  /\ selection = NoSelection
  /\ featureSelection = NoFeatureSelection
  /\ NoLifecycle
  /\ coordSystem \in {CoordinateSystemLifted(w, h, t[1], t[2]) :
                         w \in HexWidths, h \in HexHeights, t \in TileOffsets}
  /\ cell \in Cells
  /\ positions = {}
  /\ grid = NoGrid

\* The variant's calculateIsometricPosition(q, r) is called and returns.
CalculateLiftedPosition(q, r) ==
  /\ LET pos == calculateLiftedPosition(coordSystem, q, r)
     IN  positions' = positions \cup
           {[q |-> q, r |-> r, posX |-> pos.posX, posY |-> pos.posY]}
  /\ UNCHANGED <<coordSystem, cell, grid>>
  /\ UNCHANGED notCoordVars

\* The variant's screenToGrid is called and returns.
LiftedScreenToGrid(screenX, screenY, originX, originY) ==
  /\ LET g == liftedScreenToGrid(coordSystem, screenX, screenY, originX, originY)
     IN  grid' = [called |-> TRUE, screenX |-> screenX, screenY |-> screenY,
                  originX |-> originX, originY |-> originY,
                  gridX |-> g.gridX, gridY |-> g.gridY]
  /\ UNCHANGED <<coordSystem, cell, positions>>
  /\ UNCHANGED notCoordVars

NextCoordLifted ==
  \/ \E c \in Probes(cell) : CalculateLiftedPosition(c[1], c[2])
  \/ \E p \in positions, d \in Displacements, o \in Origins :
       LiftedScreenToGrid(p.posX + d[1], p.posY + d[2], o[1], o[2])

SpecCoordLifted == InitCoordLifted /\ [][NextCoordLifted]_vars

\* The seed maps of w x h draws that are 0.5 everywhere but in at most
\* MaxMarked cells, where they are 0.99.
MarkedSeedMaps(w, h) ==
  {[yy \in 1..h |-> [xx \in 1..w |-> IF <<xx, yy>> \in M THEN 99 ELSE 50]] :
     M \in {S \in SUBSET ((1..w) \X (1..h)) : Cardinality(S) <= MaxMarked}}

\* generateTerrainLayer has filled seedMap and starts the smoothing loops.
InitSmooth ==
  /\ pc = "smooth"
  /\ \E w \in 1..MaxSmoothDim, h \in 1..MaxSmoothDim :
       width = w /\ height = h /\ seedMap \in MarkedSeedMaps(w, h)
  /\ x = 0 /\ y = 0
  /\ row = <<>>
  /\ total = 0 /\ count = 0
  /\ terrainMap = <<>>
  /\ tempMap = <<>>
  /\ features = <<>>
  /\ occupiedTiles = {}
  /\ result = NoResult
  /\ tables = TileTypes
  /\ mapGenerator = "constructed"
  /\ selection = NoSelection
  /\ featureSelection = NoFeatureSelection
  /\ NoLifecycle
  /\ coordSystem = CoordinateSystem(DefaultHexWidth, DefaultHexHeight)
  /\ cell = <<0, 0>>
  /\ positions = {}
  /\ grid = NoGrid

NextSmooth == SmoothCell \/ SmoothRowDone

\* The smoothing loops alone, on maps of up to MaxSmoothDim x MaxSmoothDim.
SpecSmooth == InitSmooth /\ [][NextSmooth]_vars

\* ------------------------------------------------- HexTileMap's lifecycle

\* A HexTileMap as its constructor leaves it: its Phaser game running, and
\* the counts of the calls made on it since.
NewGame ==
  [status |-> "running", destroyCalls |-> 0, resizeCalls |-> 0,
   lateResizes |-> 0]

\* The function that this.handleResize.bind(this) returns on game g: every
\* call of bind makes a function that no earlier call has returned.
BoundHandleResize(g) == [fn |-> binds + 1, game |-> g]

\* window.addEventListener('resize', f): f is registered unless the same
\* function already is.
addEventListener(listeners, f) == listeners \cup {f}

\* window.removeEventListener('resize', f): the registered function that is
\* f, if any, is taken out; functions are compared by identity.
removeEventListener(listeners, f) == {l \in listeners : l.fn # f.fn}

\* new HexTileMap(container): the constructor creates the Phaser game and
\* registers a bound handleResize for the window's 'resize' event.
NewHexTileMap ==
  /\ windowPhaser
  /\ Len(games) < MaxGames
  /\ games' = Append(games, NewGame)
  /\ resizeListeners' =
       addEventListener(resizeListeners, BoundHandleResize(Len(games) + 1))
  /\ binds' = binds + 1
  /\ UNCHANGED <<windowPhaser, apps, resizes>>
  /\ UNCHANGED notAppVars

\* destroy() on game g: removeEventListener is given a handleResize bound
\* anew, and then the Phaser game is destroyed.
Destroy(g) ==
  /\ g \in DOMAIN games
  /\ games[g].status = "running"
  /\ resizeListeners' =
       removeEventListener(resizeListeners, BoundHandleResize(g))
  /\ binds' = binds + 1
  /\ games' = [games EXCEPT ![g].status = "destroyed",
                            ![g].destroyCalls = @ + 1]
  /\ UNCHANGED <<windowPhaser, apps, resizes>>
  /\ UNCHANGED notAppVars

\* The games as a 'resize' event of the window leaves them: every registered
\* function runs handleResize, that is game.scale.resize, on its game.
Resized(gs, listeners) ==
  [g \in DOMAIN gs |->
     LET calls == Cardinality({l \in listeners : l.game = g})
     IN  [gs[g] EXCEPT
            !.resizeCalls = @ + calls,
            !.lateResizes = IF gs[g].status = "destroyed" THEN @ + calls
                                                          ELSE @]]

\* The browser window is resized.
WindowResize ==
  /\ resizes < MaxResizes
  /\ resizes' = resizes + 1
  /\ games' = Resized(games, resizeListeners)
  /\ UNCHANGED <<windowPhaser, apps, resizeListeners, binds>>
  /\ UNCHANGED notAppVars

NextHexTileMap ==
  \/ NewHexTileMap
  \/ \E g \in 1..MaxGames : Destroy(g)
  \/ WindowResize

\* HexTileMap objects constructed and destroyed by their owner while the
\* window is resized.
SpecHexTileMap == Init /\ [][NextHexTileMap]_vars

\* ---------------------------------------------------------------- App

\* The messages that setError is given, and the null that error starts as.
NoError == "null"
EngineError == "Failed to load game engine. Please try refreshing the page."
InitializeError == "Failed to initialize the game. Please try again."

\* An App as its first render leaves it, before its effect runs: isLoading
\* is true, error is null, no script is injected and no game made.  cleanup
\* is what the effect's callback returns to React: the callback ends with
\* the call loadPhaser() and returns nothing on any path.
NewApp(standalone) ==
  [mounted |-> TRUE, standalone |-> standalone, isLoading |-> TRUE,
   error |-> NoError, script |-> "none", game |-> 0,
   cleanup |-> "undefined"]

\* initializeGame() of app a: nothing without the container; otherwise a
\* HexTileMap is constructed, and if its constructor throws the error is
\* set.  The function that initializeGame returns is dropped by its callers.
InitializedApp(a, throws) ==
  IF ~a.mounted THEN a
  ELSE IF throws THEN [a EXCEPT !.error = InitializeError]
  ELSE [a EXCEPT !.game = Len(games) + 1]

\* The games and the 'resize' listeners as initializeGame() of app a leaves
\* them: the constructor throws at new Phaser.Game, before it registers.
InitializedGames(a, throws) ==
  IF a.mounted /\ ~throws THEN Append(games, NewGame) ELSE games

InitializedListeners(a, throws) ==
  IF a.mounted /\ ~throws
    THEN addEventListener(resizeListeners, BoundHandleResize(Len(games) + 1))
    ELSE resizeListeners

InitializedBinds(a, throws) ==
  IF a.mounted /\ ~throws THEN binds + 1 ELSE binds

\* App is rendered and its effect runs: with ?standalone=true the page is
\* sent to /game; with window.Phaser defined the game is initialized at
\* once; otherwise isLoading is set and the Phaser script is injected.
Mount(standalone, throws) ==
  /\ Len(apps) < MaxMounts
  /\ Len(games) < MaxGames
  /\ \A i \in DOMAIN apps : ~apps[i].mounted
  /\ LET a == NewApp(standalone)
     IN  IF standalone
           THEN /\ apps' = Append(apps, a)
                /\ UNCHANGED <<games, resizeListeners, binds>>
         ELSE IF windowPhaser
           THEN /\ apps' = Append(apps, InitializedApp(a, throws))
                /\ games' = InitializedGames(a, throws)
                /\ resizeListeners' = InitializedListeners(a, throws)
                /\ binds' = InitializedBinds(a, throws)
         ELSE /\ apps' = Append(apps, [a EXCEPT !.isLoading = TRUE,
                                                !.script = "loading"])
              /\ UNCHANGED <<games, resizeListeners, binds>>
  /\ UNCHANGED <<windowPhaser, resizes>>
  /\ UNCHANGED notAppVars

\* The injected script of app i has loaded: window.Phaser is defined,
\* isLoading is set to false and the game is initialized.
ScriptOnload(i, throws) ==
  /\ i \in DOMAIN apps
  /\ apps[i].script = "loading"
  /\ Len(games) < MaxGames
  /\ windowPhaser' = TRUE
  /\ LET a == [apps[i] EXCEPT !.script = "loaded", !.isLoading = FALSE]
     IN  /\ apps' = [apps EXCEPT ![i] = InitializedApp(a, throws)]
         /\ games' = InitializedGames(a, throws)
         /\ resizeListeners' = InitializedListeners(a, throws)
         /\ binds' = InitializedBinds(a, throws)
  /\ UNCHANGED resizes
  /\ UNCHANGED notAppVars

\* The injected script of app i has failed to load: the error is set and
\* isLoading is set to false.
ScriptOnerror(i) ==
  /\ i \in DOMAIN apps
  /\ apps[i].script = "loading"
  /\ apps' = [apps EXCEPT ![i].script = "failed",
                          ![i].error = EngineError,
                          ![i].isLoading = FALSE]
  /\ UNCHANGED <<windowPhaser, games, resizeListeners, binds, resizes>>
  /\ UNCHANGED notAppVars

\* App i is unmounted: React runs what the effect's callback returned, if
\* it returned a function, and the container is gone.
Unmount(i) ==
  /\ i \in DOMAIN apps
  /\ apps[i].mounted
  /\ apps' = [apps EXCEPT ![i].mounted = FALSE]
  /\ IF apps[i].cleanup = "undefined" \/ apps[i].game = 0
       THEN UNCHANGED <<games, resizeListeners, binds>>
       ELSE /\ resizeListeners' =
                 removeEventListener(resizeListeners,
                                     BoundHandleResize(apps[i].game))
            /\ binds' = binds + 1
            /\ games' = [games EXCEPT ![apps[i].game].status = "destroyed",
                                      ![apps[i].game].destroyCalls = @ + 1]
  /\ UNCHANGED <<windowPhaser, resizes>>
  /\ UNCHANGED notAppVars

NextApp ==
  \/ \E standalone \in BOOLEAN, throws \in BOOLEAN : Mount(standalone, throws)
  \/ \E i \in 1..MaxMounts, throws \in BOOLEAN : ScriptOnload(i, throws)
  \/ \E i \in 1..MaxMounts : ScriptOnerror(i)
  \/ \E i \in 1..MaxMounts : Unmount(i)
  \/ WindowResize

\* The page before main renders App: Phaser is either loaded already or not.
InitApp ==
  /\ InitGen
  /\ tables = TileTypes
  /\ mapGenerator = "constructed"
  /\ selection = NoSelection
  /\ featureSelection = NoFeatureSelection
  /\ coordSystem = CoordinateSystem(DefaultHexWidth, DefaultHexHeight)
  /\ cell = <<0, 0>>
  /\ positions = {}
  /\ grid = NoGrid
  /\ windowPhaser \in BOOLEAN
  /\ apps = <<>>
  /\ games = <<>>
  /\ resizeListeners = {}
  /\ binds = 0
  /\ resizes = 0

SpecApp == InitApp /\ [][NextApp]_vars

\* -------------------------------------------------- CoordinateSystem claims

\* The last screenToGrid call was made, with origin (0, 0), on exactly the
\* pixel position calculateIsometricPosition returned for p's cell.
RoundTripOf(p) ==
  /\ grid.called
  /\ grid.originX = 0 /\ grid.originY = 0
  /\ grid.screenX = p.posX /\ grid.screenY = p.posY

HalfHorizSpacing == coordSystem.hexHorizSpacing \div 2

IsOdd(n) == n % 2 = 1

\* C5: for all integers c >= 0 and r >= 0, with origin (0, 0), screenToGrid
\* applied to the position calculateIsometricPosition(c, r) returned yields
\* exactly gridX = c and gridY = r.
C5_RoundTripNonNegative ==
  \A p \in positions :
    (RoundTripOf(p) /\ p.q >= 0 /\ p.r >= 0) =>
      (grid.gridX = p.q /\ grid.gridY = p.r)

\* The round trip was made for a cell of an odd row, away from the axes.
C5_Witness ==
  \E p \in positions :
    /\ RoundTripOf(p) /\ p.q = 2 /\ p.r = 3
    /\ coordSystem.hexWidth = Px(DefaultHexWidth)

\* C6, as claimed: for all integers c and r, negative ones included,
\* screenToGrid applied (with origin (0, 0)) to the position
\* calculateIsometricPosition(c, r) returned yields gridX = c and gridY = r.
C6_RoundTripAllCells ==
  \A p \in positions :
    RoundTripOf(p) => (grid.gridX = p.q /\ grid.gridY = p.r)

\* C6, amended: for all integers c and r the round trip yields
\* gridX = max(0, c) and gridY = max(0, r); it is (c, r) exactly when
\* c >= 0 and r >= 0, a negative coordinate coming back as 0.
C6_RoundTripClamped ==
  \A p \in positions :
    RoundTripOf(p) =>
      /\ grid.gridX = (IF p.q >= 0 THEN p.q ELSE 0)
      /\ grid.gridY = (IF p.r >= 0 THEN p.r ELSE 0)
      /\ (grid.gridX = p.q /\ grid.gridY = p.r) <=> (p.q >= 0 /\ p.r >= 0)

\* The round trip was made for a cell with a negative odd row and a
\* negative column.
C6_Witness ==
  \E p \in positions : RoundTripOf(p) /\ p.q = -2 /\ p.r = -1

\* C7: for every column c and row r (even or odd),
\* toPixel(c+1, r).x - toPixel(c, r).x is exactly
\* horizSpacing = hexWidth * 0.75, and the two cells have the same y.
C7_ColumnSpacing ==
  \A p1, p2 \in positions :
    (p2.q = p1.q + 1 /\ p2.r = p1.r) =>
      /\ p2.posX - p1.posX = coordSystem.hexHorizSpacing
      /\ 4 * (p2.posX - p1.posX) = 3 * coordSystem.hexWidth
      /\ p2.posY = p1.posY

\* Both a cell of an odd row and its right-hand neighbour were positioned.
C7_Witness ==
  \E p1, p2 \in positions :
    p2.q = p1.q + 1 /\ p2.r = p1.r /\ p1.r = 1 /\ p1.q = 0

C9_DefaultSizePositions ==
  /\ (coordSystem.hexWidth = Px(128) /\ coordSystem.hexHeight = Px(112)) =>
       \A p \in positions :
         /\ (p.q = 1 /\ p.r = 0) => (p.posX = Px(96) /\ p.posY = 0)
         /\ (p.q = 0 /\ p.r = 1) => (p.posX = Px(48) /\ p.posY = Px(112))
  /\ \A p1, p2 \in positions :
       (p2.q = p1.q /\ p2.r = p1.r + 1) =>
         p2.posY - p1.posY = coordSystem.hexHeight

\* With the 128 x 112 tile, cells (0, 0), (1, 0) and (0, 1) were positioned.
C9_Witness ==
  /\ coordSystem.hexWidth = Px(128) /\ coordSystem.hexHeight = Px(112)
  /\ \A c \in {<<0, 0>>, <<1, 0>>, <<0, 1>>} :
       \E p \in positions : p.q = c[1] /\ p.r = c[2]

\* C10: for any positive hexWidth and hexHeight,
\* calculateIsometricPosition(0, 0) is exactly (0, 0).
C10_OriginMapsToOrigin ==
  \A p \in positions :
    (p.q = 0 /\ p.r = 0) => (p.posX = 0 /\ p.posY = 0)

\* Cell (0, 0) was positioned under a tile size other than the program's.
C10_Witness ==
  /\ coordSystem.hexWidth = Px(1) /\ coordSystem.hexHeight = Px(2)
  /\ \E p \in positions : p.q = 0 /\ p.r = 0

\* C11: for every pixel input and every origin, negative and fractional
\* ones included, screenToGrid returns gridX >= 0 and gridY >= 0.
C11_GridNeverNegative ==
  grid.called => (grid.gridX >= 0 /\ grid.gridY >= 0)

\* screenToGrid was called, with a displaced origin, on a point more than a
\* whole column to the left of the origin and a whole row above it.
C11_Witness ==
  /\ grid.called
  /\ grid.originX # 0 /\ grid.originY # 0
  /\ grid.screenX - grid.originX < -coordSystem.hexHorizSpacing
  /\ grid.screenY - grid.originY < -coordSystem.hexVertSpacing
  /\ grid.gridX = 0 /\ grid.gridY = 0

\* ------------------------------------------------------ MapGenerator claims

Returned == pc = "done"

\* C1: for every width > 0 and height > 0 and every sequence of random
\* draws, the returned terrain grid has exactly height rows, each of exactly
\* width entries, and every entry is one of the five terrain kinds.
C1_TerrainDimensions ==
  (Returned /\ width > 0 /\ height > 0) =>
    /\ Len(result.terrain) = height
    /\ \A yy \in DOMAIN result.terrain :
         /\ Len(result.terrain[yy]) = width
         /\ \A xx \in DOMAIN result.terrain[yy] :
              result.terrain[yy][xx] \in TerrainTileType

\* A 1 x 3 map (three rows of one entry) is returned whose rows differ.
C1_Witness ==
  /\ Returned /\ width = 1 /\ height = 3
  /\ result.terrain[1][1] # WATER
  /\ result.terrain[2][1] = WATER
  /\ result.terrain[3][1] = "desert"

\* C2: every feature of a returned map has a feature kind whose
\* VALID_FEATURE_TERRAIN_COMBINATIONS entry contains the terrain kind stored
\* at terrain[f.y][f.x] of the same returned map.
C2_FeatureCompatibility ==
  Returned =>
    \A i \in DOMAIN result.features :
      LET f == result.features[i]
      IN  /\ f.type \in FeatureTileType
          /\ result.terrain[f.y + 1][f.x + 1]
                \in VALID_FEATURE_TERRAIN_COMBINATIONS[f.type]

\* A returned map holds minerals on a mountain and a village on another kind.
C2_Witness ==
  /\ Returned
  /\ \E i, j \in DOMAIN result.features :
       /\ result.features[i].type = "minerals"
       /\ result.terrain[result.features[i].y + 1][result.features[i].x + 1]
            = "mountain"
       /\ result.features[j].type = "village"

\* C3: no two distinct entries of a returned features list have the same
\* (x, y) pair.
C3_FeatureUniqueness ==
  Returned =>
    \A i, j \in DOMAIN result.features :
      i # j => <<result.features[i].x, result.features[i].y>>
                 # <<result.features[j].x, result.features[j].y>>

\* A returned map has a feature on each of its four cells.
C3_Witness ==
  /\ Returned /\ width = 2 /\ height = 2
  /\ Len(result.features) = 4

\* C4: every feature f of a map returned by generateTileMap(w, h) with
\* w, h > 0 satisfies 0 <= f.x < w and 0 <= f.y < h.
C4_FeaturesInBounds ==
  (Returned /\ width > 0 /\ height > 0) =>
    \A i \in DOMAIN result.features :
      /\ 0 <= result.features[i].x /\ result.features[i].x < width
      /\ 0 <= result.features[i].y /\ result.features[i].y < height

\* A returned 3 x 1 map has a feature on its last cell.
C4_Witness ==
  /\ Returned /\ width = 3 /\ height = 1
  /\ \E i \in DOMAIN result.features :
       result.features[i].x = width - 1 /\ result.features[i].y = height - 1

\* C12: generateTileMap(1, 1) returns a terrain grid of exactly one row of
\* exactly one entry and a features list of length 0 or 1; a feature, if
\* there is one, is at (0, 0).  This holds for every sequence of draws, the
\* ones that first classify the single cell as water included.
C12_SingleCellMap ==
  (Returned /\ width = 1 /\ height = 1) =>
    /\ Len(result.terrain) = 1
    /\ Len(result.terrain[1]) = 1
    /\ Len(result.features) \in {0, 1}
    /\ \A i \in DOMAIN result.features :
         result.features[i].x = 0 /\ result.features[i].y = 0

\* A 1 x 1 map is returned whose cell is water: a cell without neighbours is
\* water after the refinement only if the smoothing classified it as water
\* and the re-draw of an isolated water cell made it water again.
C12_Witness ==
  /\ Returned /\ width = 1 /\ height = 1
  /\ result.terrain = <<<<WATER>>>>
  /\ result.features = <<>>

\* The error generateTileMap ended with: the only throw in its code is the
\* TypeError of terrainMap[0].length on an empty terrainMap.
ThrownError == IF pc = "threw" THEN "TypeError" ELSE "none"

\* C13: generateTileMap with width <= 0 or height <= 0 fails with an
\* InvalidDimension error and returns no TileMap at all (no partial map, no
\* map with empty rows), for every combination of a non-positive and a
\* positive dimension.
C13_InvalidDimensionRejected ==
  (pc # "idle" /\ (width <= 0 \/ height <= 0)) =>
    /\ ~Returned
    /\ pc = "threw" => ThrownError = "InvalidDimension"

\* The number of water cells among the up to eight cells of map that are
\* adjacent to (cx, cy), diagonals included.
AdjacentWater(map, cx, cy) ==
  Cardinality({c \in (0..(Len(map[1]) - 1)) \X (0..(Len(map) - 1)) :
                 /\ c # <<cx, cy>>
                 /\ c[1] - cx \in -1..1 /\ c[2] - cy \in -1..1
                 /\ map[c[2] + 1][c[1] + 1] = WATER})

\* The kinds the refinement rules allow for cell (cx, cy), given the grid
\* map as it was before the refinement.
SnapshotOutcomes(map, cx, cy) ==
  IF map[cy + 1][cx + 1] = WATER /\ AdjacentWater(map, cx, cy) = 0
  THEN TerrainTileType
  ELSE IF AdjacentWater(map, cx, cy) >= 2
       THEN {WATER, map[cy + 1][cx + 1]}
       ELSE {map[cy + 1][cx + 1]}

\* The refinement's loop has decided every cell and not yet applied them.
RefinementDecided == pc = "refine" /\ ~LoopRuns(y, Len(terrainMap))

\* The tables are malformed: a feature kind has no entry in the compatibility
\* table or an empty one, or the weights of a table sum to 0.
MalformedTables ==
  \/ \E f \in FeatureTileType :
       f \notin DOMAIN tables.VALID_FEATURE_TERRAIN_COMBINATIONS
  \/ \E f \in DOMAIN tables.VALID_FEATURE_TERRAIN_COMBINATIONS :
       tables.VALID_FEATURE_TERRAIN_COMBINATIONS[f] = {}
  \/ TerrainTotalWeight = 0
  \/ FeatureRunningTotal(FeatureOrder, Len(FeatureOrder)) = 0

\* C14: a malformed configuration table (a feature kind missing from the
\* compatibility table or with an empty compatible set, or weights that sum
\* to zero) is rejected with a ConfigurationError when the MapGenerator is
\* constructed: under such tables no generator comes to exist, and no
\* generateTileMap call runs on one.
C14_MalformedTablesRejected ==
  MalformedTables => (mapGenerator = "none" /\ pc = "idle")

\* C15: the water refinement uses one consistent snapshot.  While the cells
\* are being decided terrainMap stays the grid it was before the refinement;
\* a step decides at most the current cell, to a kind the rules allow for
\* the water-neighbour count and the kind that cell has in that grid, and
\* leaves every other decision alone; the new values reach terrainMap only
\* in the step after every cell has been decided.
C15_RefinementSnapshot ==
  [][ /\ (pc = "refine" /\ pc' = "refine") =>
           /\ terrainMap' = terrainMap
           /\ \A yy \in DOMAIN tempMap : \A xx \in DOMAIN tempMap[yy] :
                IF x' = x + 1 /\ xx = x + 1 /\ yy = y + 1
                THEN tempMap'[yy][xx] \in SnapshotOutcomes(terrainMap, x, y)
                ELSE tempMap'[yy][xx] = tempMap[yy][xx]
      /\ (pc = "refine" /\ pc' = "features") =>
           (RefinementDecided /\ terrainMap' = tempMap) ]_vars

\* In the row water, desert, water the first cell, isolated water, was
\* re-drawn as another kind, and the desert cell was then made water: the
\* grid before the refinement gives it two water neighbours, the decisions
\* made so far only one.  The last cell is still to be decided.
C15_Witness ==
  /\ pc = "refine" /\ width = 3 /\ height = 1 /\ x = 2 /\ y = 0
  /\ terrainMap = <<<<WATER, "desert", WATER>>>>
  /\ tempMap[1][1] # WATER
  /\ tempMap[1][2] = WATER

\* C20: a cell with two or more water neighbours in the grid before the
\* refinement ends the pass either as water or with the kind it had before;
\* a cell that was water and has two or more water neighbours stays water.
C20_WaterNeighboursKeepOrFlood ==
  [][ (pc = "refine" /\ pc' = "features") =>
        \A yy \in DOMAIN terrainMap : \A xx \in DOMAIN terrainMap[yy] :
          AdjacentWater(terrainMap, xx - 1, yy - 1) >= 2 =>
            /\ terrainMap'[yy][xx] \in {WATER, terrainMap[yy][xx]}
            /\ terrainMap[yy][xx] = WATER => terrainMap'[yy][xx] = WATER ]_vars

\* Every cell of a one-row map has been decided, and a cell that was not
\* water and has two water neighbours is to become water.
C20_Witness ==
  /\ RefinementDecided /\ height = 1
  /\ \E xx \in DOMAIN terrainMap[1] :
       /\ AdjacentWater(terrainMap, xx - 1, 0) >= 2
       /\ terrainMap[1][xx] # WATER
       /\ tempMap[1][xx] = WATER

\* C16: the smoothed value of a cell is the mean of its own seed and the
\* seeds of those of its eight neighbours that are in bounds, and no cell out
\* of bounds is read: the scan reads exactly the in-bounds cells of the 3 x 3
\* block around the cell, total is the sum of their seeds and count their
\* number.  The divisor is 1 on a 1 x 1 map and, on a map at least 3 wide
\* and 3 high, 4 for a corner, 6 for another edge cell and 9 for an interior
\* cell.
C16_SmoothingDivisor ==
  (pc = "smooth" /\ x > 0) =>
    LET cx == x - 1
        cy == y
        block == {c \in (0..(width - 1)) \X (0..(height - 1)) :
                    c[1] - cx \in -1..1 /\ c[2] - cy \in -1..1}
        sides == (IF cx \in {0, width - 1} THEN 1 ELSE 0)
                   + (IF cy \in {0, height - 1} THEN 1 ELSE 0)
    IN  /\ Neighbours(cx, cy, width, height) \cup {<<cx, cy>>} = block
        /\ count = Cardinality(block)
        /\ total = SumSeeds(seedMap, block)
        /\ (width = 1 /\ height = 1) => count = 1
        /\ (width >= 3 /\ height >= 3) =>
             count = (IF sides = 2 THEN 4 ELSE IF sides = 1 THEN 6 ELSE 9)

\* The interior cell of a 3 x 3 map has just been smoothed: nine seeds were
\* added up, the 0.99 of the top left corner among them.
C16_Witness ==
  /\ pc = "smooth" /\ width = 3 /\ height = 3 /\ x = 2 /\ y = 1
  /\ seedMap[1][1] = 99 /\ seedMap[3][3] = 50
  /\ count = 9
  /\ total = 8 * 50 + 99

\* The ends of the sub-intervals of [0, 1) in hundredths: the k-th kind of
\* TerrainOrder has the interval from ClaimedEnds[k] to ClaimedEnds[k + 1].
ClaimedEnds == <<0, 35, 60, 75, 90, 100>>

\* The last call's value is exactly the end shared by the k-th and the
\* (k+1)-th interval.
OnBoundary(k) ==
  selection.called /\ selection.value.n * 100 = ClaimedEnds[k + 1] * selection.value.d

\* C17: selectTerrainTypeFromValue maps every v in [0, 1) to exactly one
\* terrain kind, the kind whose sub-interval contains v, where [0, 1) is
\* split into [0, 0.35) grass, [0.35, 0.60) forest, [0.60, 0.75) mountain,
\* [0.75, 0.90) desert, [0.90, 1) water: contiguous sub-intervals in the
\* order of TERRAIN_WEIGHTS whose lengths are the weights 35, 25, 15, 15, 10
\* out of 100.
C17_TerrainPartition ==
  /\ \A k \in 1..Len(TerrainOrder) :
       ClaimedEnds[k + 1] - ClaimedEnds[k] = TERRAIN_WEIGHTS[TerrainOrder[k]]
  /\ (selection.called /\ selection.value.n < selection.value.d) =>
       \A k \in 1..Len(TerrainOrder) :
         selection.type = TerrainOrder[k] <=>
           /\ ClaimedEnds[k] * selection.value.d <= selection.value.n * 100
           /\ selection.value.n * 100 < ClaimedEnds[k + 1] * selection.value.d

\* selectTerrainTypeFromValue(0.749) returned mountain.
C17_Witness ==
  /\ selection.called
  /\ selection.value = [n |-> 749, d |-> 1000]
  /\ selection.type = "mountain"

C19_OneIsWater ==
  (selection.called /\ selection.value.n = selection.value.d) =>
    selection.type = WATER

\* The refinement is about to decide a cell that is water in the grid before
\* the refinement and has no water neighbour in it.
IsolatedWaterNext ==
  /\ pc = "refine"
  /\ LoopRuns(y, Len(terrainMap)) /\ LoopRuns(x, Len(terrainMap[1]))
  /\ terrainMap[y + 1][x + 1] = WATER
  /\ AdjacentWater(terrainMap, x, y) = 0

\* C21: a cell that is water in the grid before the refinement and has no
\* water neighbour is replaced by the result of selectTerrainTypeFromValue
\* on one fresh draw: the step that decides it can give each of the five
\* kinds, water again included, gives nothing but one of them and touches no
\* other cell; the rule for two or more water neighbours does not apply to
\* the same cell.
C21_IsolatedWaterRedrawn ==
  IsolatedWaterNext =>
    /\ \A k \in TerrainTileType :
         ENABLED (RefineCell /\ tempMap' = SetCell(tempMap, x, y, k))
    /\ ~ENABLED (RefineCell
                   /\ \A k \in TerrainTileType :
                        tempMap' # SetCell(tempMap, x, y, k))
    /\ ~(AdjacentWater(terrainMap, x, y) >= 2)

\* In the row water, desert, water the first cell, isolated water, has been
\* re-drawn as mountain.
C21_Witness ==
  /\ pc = "refine" /\ width = 3 /\ height = 1 /\ x = 1 /\ y = 0
  /\ terrainMap = <<<<WATER, "desert", WATER>>>>
  /\ tempMap = <<<<"mountain", "desert", WATER>>>>

\* C29: the water refinement changes nothing else: a cell that is not water
\* in the grid before the refinement and has fewer than two water neighbours
\* in it keeps its kind, and the refinement does not change the number of
\* rows of the grid or the length of any row.
C29_RefinementFrame ==
  [][ (pc = "refine" /\ pc' = "features") =>
        /\ Len(terrainMap') = Len(terrainMap)
        /\ \A yy \in DOMAIN terrainMap :
             /\ Len(terrainMap'[yy]) = Len(terrainMap[yy])
             /\ \A xx \in DOMAIN terrainMap[yy] :
                  (/\ terrainMap[yy][xx] # WATER
                   /\ AdjacentWater(terrainMap, xx - 1, yy - 1) < 2) =>
                    terrainMap'[yy][xx] = terrainMap[yy][xx] ]_vars

\* Every cell of the row water, desert, desert has been decided: the water
\* is to become forest, and the desert cells, with one and with no water
\* neighbour, stay desert.
C29_Witness ==
  /\ RefinementDecided /\ width = 3 /\ height = 1
  /\ terrainMap = <<<<WATER, "desert", "desert">>>>
  /\ tempMap = <<<<"forest", "desert", "desert">>>>

\* Cell (ax, ay) comes before cell (bx, by) in row-major order.
RowMajorBefore(ax, ay, bx, by) == ay < by \/ (ay = by /\ ax < bx)

\* C22: generateFeatures visits the cells once each in row-major order (y
\* outer, x inner): the features list is in strictly increasing row-major
\* order of (y, x), every feature lies before the cell being visited, which
\* therefore is never an occupied one (the skip is not taken), and the
\* function returns only when every row has been visited.
C22_FeaturesRowMajor ==
  (pc \in {"features", "done"}) =>
    /\ \A i, j \in DOMAIN features :
         i < j => RowMajorBefore(features[i].x, features[i].y,
                                 features[j].x, features[j].y)
    /\ occupiedTiles = {<<features[i].x, features[i].y>> : i \in DOMAIN features}
    /\ pc = "features" =>
         /\ \A i \in DOMAIN features :
              RowMajorBefore(features[i].x, features[i].y, x, y)
         /\ <<x, y>> \notin occupiedTiles
    /\ pc = "done" =>
         (y = Len(result.terrain) /\ result.features = features)

\* A returned 3 x 1 map has features on its first and its last cell only.
C22_Witness ==
  /\ Returned /\ width = 3 /\ height = 1
  /\ Len(result.features) = 2
  /\ result.features[1].x = 0 /\ result.features[2].x = 2

\* C24: the feature phase leaves the terrain grid unchanged.  generateFeatures
\* starts only when the refinement has applied its decisions, no step of it
\* changes a cell of terrainMap, and the terrain of the returned TileMap is
\* that same grid, the one the features were checked against.
C24_FeaturesKeepTerrain ==
  [][ /\ pc = "features" => terrainMap' = terrainMap
      /\ (pc # "features" /\ pc' = "features") => RefinementDecided
      /\ (pc # "done" /\ pc' = "done") =>
           (pc = "features" /\ result'.terrain = terrainMap) ]_vars

\* A 2 x 2 map is returned with a feature on two or three of its cells.
C24_Witness ==
  /\ Returned /\ width = 2 /\ height = 2
  /\ Len(result.features) \in {2, 3}
  /\ result.terrain = terrainMap

\* One of the threshold ranges of selectTerrainTypeFromValue holds value,
\* so that its loop returns and the default after it is not reached.
MatchesRange(value) == \E k \in 1..Len(TerrainOrder) : InThreshold(value, k)

\* C30: each smoothed value, the sum of seeds in [0, 1) divided by their
\* number, is again in [0, 1), so selectTerrainTypeFromValue returns from
\* one of its threshold ranges, never from its default, when
\* generateTerrainLayer calls it on a smoothed value and when
\* refineWaterBodies calls it on a draw.
C30_SmoothedValueInRange ==
  /\ (pc = "smooth" /\ x > 0) =>
       /\ 0 <= total /\ total < count * 100
       /\ MatchesRange([n |-> total, d |-> count * 100])
       /\ row[x] = selectTerrainTypeFromValue([n |-> total, d |-> count * 100])
  /\ pc = "refine" =>
       \A d \in RedrawDraws : 0 <= d /\ d < 100 /\ MatchesRange(RandomValue(d))

\* A cell of a 2 x 2 map whose four seeds are all 0.99 has just been
\* smoothed, to 0.99 and water.
C30_Witness ==
  /\ pc = "smooth" /\ width = 2 /\ height = 2 /\ x = 1 /\ y = 0
  /\ count = 4 /\ total = 4 * 99
  /\ row = <<WATER>>

\* The sum of the FEATURE_WEIGHTS of the first k kinds of list.
RECURSIVE CumulativeWeight(_, _)
CumulativeWeight(list, k) ==
  IF k = 0 THEN 0 ELSE CumulativeWeight(list, k - 1) + FEATURE_WEIGHTS[list[k]]

\* C23: given a non-empty list of compatible kinds and a draw in [0, total),
\* total being the sum of their FEATURE_WEIGHTS, selectFeatureTypeWithWeights
\* returns the first kind in list order whose cumulative weight is at least
\* the draw; such a kind exists (the default after the loop is not reached)
\* and the result is a member of the list.  The draw is d/100 of total.
C23_FeatureSelection ==
  (featureSelection.called /\ Len(featureSelection.validTypes) > 0) =>
    LET list == featureSelection.validTypes
        totalWeight == CumulativeWeight(list, Len(list))
        reached == {k \in 1..Len(list) :
                      featureSelection.d * totalWeight
                        <= CumulativeWeight(list, k) * 100}
    IN  /\ featureSelection.d * totalWeight < totalWeight * 100
        /\ reached # {}
        /\ \E k \in reached :
             /\ \A j \in reached : k <= j
             /\ featureSelection.type = list[k]
        /\ \E k \in 1..Len(list) : featureSelection.type = list[k]

\* With the kinds compatible with grass and a draw of a half, the second
\* kind was returned: the draw is 40 of 80, the cumulative weights 25 and 50.
C23_Witness ==
  /\ featureSelection.called
  /\ featureSelection.validTypes = <<"fruit", "animals", "ruins", "village">>
  /\ featureSelection.d = 50
  /\ featureSelection.type = "animals"

\* C25: the coordinate-system variant that subtracts 2 pixels from y also
\* satisfies the round-trip law: for all integers c >= 0 and r >= 0, with
\* origin (0, 0), its screenToGrid applied to the position its
\* calculateIsometricPosition(c, r) returned yields gridX = c and gridY = r;
\* that position lies 2 pixels above r rows of hexHeight * 0.75.
C25_LiftedRoundTrip ==
  \A p \in positions :
    /\ p.posY + Px(2) = p.r * ThreeQuarterHeight(coordSystem)
    /\ (RoundTripOf(p) /\ p.q >= 0 /\ p.r >= 0) =>
         (grid.gridX = p.q /\ grid.gridY = p.r)

\* The round trip was made for cell (0, 1) with a tile 1 pixel high, whose
\* rows are less than 2 pixels apart.
C25_Witness ==
  \E p \in positions :
    /\ RoundTripOf(p) /\ p.q = 0 /\ p.r = 1
    /\ coordSystem.hexHeight = Px(1)
    /\ grid.gridX = 0 /\ grid.gridY = 1


\* --------------------------------------------------------- lifecycle claims

\* C26: once destroy() has returned on a HexTileMap, the 'resize' listener
\* that its constructor registered is registered no longer, and no 'resize'
\* event has called handleResize on the destroyed game.
C26_ListenerRemovedByDestroy ==
  \A g \in DOMAIN games :
    games[g].status = "destroyed" =>
      /\ ~\E l \in resizeListeners : l.game = g
      /\ games[g].lateResizes = 0

\* C27: an App that has unmounted after its initializeGame created a
\* HexTileMap has had destroy() called on that HexTileMap exactly once, so
\* that no game is left running without its component.
C27_GameDestroyedOnUnmount ==
  \A i \in DOMAIN apps :
    (~apps[i].mounted /\ apps[i].game # 0) =>
      /\ games[apps[i].game].destroyCalls = 1
      /\ games[apps[i].game].status = "destroyed"

\* Nothing that can still happen sets isLoading of app i: its effect has run
\* and its injected script, if any, has fired onload or onerror.
LoadingSettled(i) == apps[i].script # "loading"

\* C28: for a mounted App that was not sent to the standalone page, once the
\* engine is available (Phaser was defined at mount, or the script's onload
\* has fired) and nothing more can change it, isLoading is false; and once
\* onerror has fired, isLoading is false and error is set.  As nothing sets
\* isLoading after that, it is then false exactly if it ever becomes false.
C28_LoadingEnds ==
  \A i \in DOMAIN apps :
    (apps[i].mounted /\ ~apps[i].standalone /\ LoadingSettled(i)) =>
      /\ ~apps[i].isLoading
      /\ apps[i].script = "failed" => apps[i].error # "null"

====
